---- MODULE Spec2Model ----
(***************************************************************************)
(* A model of the gateway client of hitomi:                                *)
(*   - Shard            src/src/client/gateway/Shard.js, lines 13-244      *)
(*   - Collection       src/src/client/gateway/Shard.js, lines 490-585     *)
(*   - GatewayManager   src/src/client/gateway/GatewayManager.js           *)
(* Shard.js also holds an older copy of the Shard class (lines 257-488);   *)
(* the model follows the first one.                                        *)
(*                                                                         *)
(* Every handler of the program is one action.  The handlers are written   *)
(* as operators from a record of the state to a record of the state, one   *)
(* operator per method, composed as the methods call each other.           *)
(***************************************************************************)
EXTENDS Integers, Sequences, FiniteSets, TLC

\* ------------------------------------------------------------- bounds
\* Largest sequence number (packet.s) a DISPATCH frame carries.
MaxSeq == 2

\* Largest reconnectAttempts a Shard starts from in BackoffSpec.
MaxAttempts == 6

\* Largest limit a Collection is constructed with.
MaxLimit == 2
\* Largest cache.sweep (the entries one pass of #sweep may delete).
MaxSweep == 2

\* Largest number of ids in client.options.shards.
MaxShards == 3
\* Largest number of shard.connect() calls connectShard makes in a run.
MaxConnects == 4
\* The clock advances by TimeStep ms at a time, up to MaxTime ms.
TimeStep == 2500
MaxTime == 15000

\* ---------------------------------------------------------- constants
\* null / undefined of a field that otherwise holds a string.
Null == "null"
\* An absent packet (handlePacket's !packet).
NoPacket == [op |-> "none"]
\* The event types (packet.t) the gateway sends in the model.
EventTypes == {"READY", "MESSAGE_CREATE", "TYPING_START"}
\* The event types that have a handler in the registry (./handlers/).
PacketHandlers == {"READY", "MESSAGE_CREATE"}
\* The session ids a READY frame can carry.
SessionIds == {"s1", "s2"}
\* The heartbeat_interval values a HELLO frame can carry; 0 is an absent one.
HelloIntervals == {0, 41250}
\* An undefined (or null) id or return value.
Undefined == "undefined"
\* The ids and the items passed to a Collection.
Keys == {"a", "b", "c"}
Items == {"v1", "v2", "v3"}

VARIABLES
  \* ---- Shard fields (constructor, Shard.js 14-30)
  status,              \* "IDLE" | "CONNECTED" | "OPEN" | "READY" | "CLOSED"
  connection,          \* 0 (null) or the index in sockets of the Websocket held
  sequence,            \* -1, or 0, or the last packet.s
  sessionId,           \* Null or a session id
  lastHeartbeatAcked,  \* BOOLEAN
  lastHeartbeatAck,    \* Null (never assigned) or "true": the field lines 96 and 122 write
  heartbeatInterval,   \* 0 (null) or the handle of the interval timer
  reconnectInterval,   \* ms
  reconnectAttempts,
  \* ---- the Shard's environment
  sockets,             \* sockets[i]: readyState of the i-th Websocket created
  opened,              \* the sockets whose "open" event has fired
  intervals,           \* the handles of the armed setInterval timers
  timeouts,            \* every setTimeout of disconnect: [delay, fired]
  sent,                \* the frames the last handler passed to connection.send
  emitted,             \* the events the last handler emitted
  handled,             \* the results of the last handler's manager.handlePacket calls
  last,                \* the last handler that ran: [h, packet, reconnect, threw]
  \* ---- client.options
  autoReconnect,
  blockedEvents,
  \* ---- Collection (Shard.js 490-585)
  limit,               \* this.limit
  toAdd,               \* this.cache.toAdd: [configured, admits]
  store,               \* the Map's entries [id, item], in insertion order
  ret,                 \* what the last call returned, or the error it threw
  call,                \* the last call: [op, id, item]
  added,               \* added[id]: the item of the first add(id, ...), or Null
  sweepQuota,          \* this.cache.sweep
  toRemove,            \* the items this.cache.toRemove(id, item) is true of
  removedItems,        \* removedItems of the last #sweep, when it left its loop
  sweepTimers,         \* the pending setTimeout(() => this.#sweep(), 10000)
  \* ---- GatewayManager
  queue,               \* this.queue: the Shard ids, in the Set's insertion order
  shards,              \* the Shards created: id -> [status, connection, sockets]
  started,             \* whether createShardConnection has been called
  now,                 \* the clock, ms
  connectTimers,       \* the deadlines of the pending setTimeout of connectShard
  attemptLog,          \* every shard.connect() of connectShard: [shard, at, outcome]
  startResult,         \* the promise createShardConnection returned
  unhandled            \* the rejected promises of connectShard that nothing holds

shardVars == <<status, connection, sequence, sessionId, lastHeartbeatAcked,
               lastHeartbeatAck, heartbeatInterval, reconnectInterval,
               reconnectAttempts, sockets, opened, intervals, timeouts, sent,
               emitted, handled, last, autoReconnect, blockedEvents>>

cacheVars == <<limit, toAdd, store, ret, call, added, sweepQuota, toRemove,
               removedItems, sweepTimers>>

managerVars == <<queue, shards, started, now, connectTimers, attemptLog, startResult,
                 unhandled>>

vars == <<shardVars, cacheVars, managerVars>>

\* ------------------------------------------------------------ frames
\* The payload d of an inbound frame: its truthiness and the two fields read.
Payload(truthy, sid, hb) ==
  [truthy |-> truthy, session_id |-> sid, heartbeat_interval |-> hb]

\* An inbound frame { op, d, s, t }.  s = 0 stands for an absent or zero
\* sequence and t = Null for an absent type, both falsy in the code's tests.
Frame(op, t, s, d) == [op |-> op, t |-> t, s |-> s, d |-> d]

\* The frames the gateway sends: only a DISPATCH (EVENT) frame carries a type and
\* a sequence number.
InboundFrames ==
       { Frame("EVENT", "READY", s, Payload(TRUE, sid, 0)) :
           s \in 0..MaxSeq, sid \in SessionIds }
  \cup { Frame("EVENT", t, s, Payload(TRUE, Null, 0)) :
           t \in EventTypes \ {"READY"}, s \in 0..MaxSeq }
  \cup { Frame("HEARTBEAT", Null, 0, Payload(FALSE, Null, 0)),
         Frame("HEARTBEAT_ACK", Null, 0, Payload(FALSE, Null, 0)) }
  \cup { Frame("HELLO", Null, 0, Payload(TRUE, Null, hb)) : hb \in HelloIntervals }
  \cup { Frame("INVALID_SESSION", Null, 0, Payload(b, Null, 0)) : b \in BOOLEAN }

\* The opcodes packetReceive has a case for (Constants.OP_CODES).
InboundOps == {"EVENT", "HEARTBEAT", "HEARTBEAT_ACK", "HELLO", "INVALID_SESSION"}

\* Every frame JSON.parse can hand to packetReceive: any opcode with any type
\* or none and any sequence number or none, with the payload fields the code
\* reads for that opcode and type.
AnyFrames ==
  { f \in [op : InboundOps, t : EventTypes \cup {Null}, s : 0..MaxSeq,
           d : [truthy : BOOLEAN, session_id : SessionIds \cup {Null},
                heartbeat_interval : HelloIntervals]] :
      /\ (f.t = "READY") = (f.d.session_id # Null)
      /\ f.d.heartbeat_interval # 0 => f.op = "HELLO"
      /\ ~f.d.truthy => f.op = "INVALID_SESSION" }

\* Outbound frames.
ResumeFrame(sid, seq) == [op |-> "RESUME", session_id |-> sid, seq |-> seq]
IdentifyFrame == [op |-> "IDENTIFY"]
HeartbeatFrame(seq) == [op |-> "HEARTBEAT", d |-> seq]

\* An emitted event.
Event(name, arg) == [ev |-> name, arg |-> arg]

Contains(seq, x) == \E n \in DOMAIN seq : seq[n] = x

\* ------------------------------------------------------ GatewayManager
\* handlePacket without the test of blockedEvents (line 70).
handlePacket_noBlocklist(packet, blocked) ==
  IF packet = NoPacket
  THEN [packet |-> packet, returned |-> FALSE, invoked |-> <<>>]
  ELSE [packet |-> packet, returned |-> TRUE,
        invoked |-> IF packet.t \in PacketHandlers THEN <<packet.t>> ELSE <<>>]

\* handlePacket: its return value and the handlers it invoked.
handlePacket(packet, blocked) ==
  IF packet = NoPacket
  THEN [packet |-> packet, returned |-> FALSE, invoked |-> <<>>]
  ELSE [packet |-> packet, returned |-> TRUE,
        invoked |-> IF packet.t \notin blocked /\ packet.t \in PacketHandlers
                    THEN <<packet.t>> ELSE <<>>]

\* --------------------------------------------------------------- Shard
\* The state a handler works on, as a record.
Shard ==
  [status |-> status, connection |-> connection, sequence |-> sequence,
   sessionId |-> sessionId, lastHeartbeatAcked |-> lastHeartbeatAcked,
   lastHeartbeatAck |-> lastHeartbeatAck, heartbeatInterval |-> heartbeatInterval,
   reconnectInterval |-> reconnectInterval, reconnectAttempts |-> reconnectAttempts,
   sockets |-> sockets, intervals |-> intervals, timeouts |-> timeouts,
   sent |-> <<>>, emitted |-> <<>>, handled |-> <<>>]

\* The state a handler leaves.
Commit(S, handler) ==
  /\ status' = S.status
  /\ connection' = S.connection
  /\ sequence' = S.sequence
  /\ sessionId' = S.sessionId
  /\ lastHeartbeatAcked' = S.lastHeartbeatAcked
  /\ lastHeartbeatAck' = S.lastHeartbeatAck
  /\ heartbeatInterval' = S.heartbeatInterval
  /\ reconnectInterval' = S.reconnectInterval
  /\ reconnectAttempts' = S.reconnectAttempts
  /\ sockets' = S.sockets
  /\ intervals' = S.intervals
  /\ timeouts' = S.timeouts
  /\ sent' = S.sent
  /\ emitted' = S.emitted
  /\ handled' = S.handled
  /\ last' = handler
  /\ UNCHANGED <<autoReconnect, blockedEvents, cacheVars, managerVars>>

Handler(h, packet, reconnect) ==
  [h |-> h, packet |-> packet, reconnect |-> reconnect, threw |-> FALSE]

\* The handler called connection.terminate() and the call threw.
Thrown(handler, threw) == [handler EXCEPT !.threw = threw]

emit(S, name, arg) == [S EXCEPT !.emitted = Append(@, Event(name, arg))]

\* connect without the test of line 36.
connect_anyStatus(S) ==
  [S EXCEPT !.sockets = Append(@, "CONNECTING"),
            !.connection = Len(S.sockets) + 1,
            !.status = "CONNECTED"]

\* new Websocket(...): one more socket, connecting.
connect(S) ==
  IF S.status # "IDLE" THEN S
  ELSE [S EXCEPT !.sockets = Append(@, "CONNECTING"),
                 !.connection = Len(S.sockets) + 1,
                 !.status = "CONNECTED"]

\* connection.send is reached unless the status is CLOSED; with no connection
\* the call is a TypeError.
sendWebsocketMessage(S, data) ==
  IF S.status = "CLOSED" THEN S
  ELSE IF S.connection = 0 THEN emit(S, "uncaughtException", "TypeError")
  ELSE [S EXCEPT !.sent = Append(@, data)]

identify(S) == sendWebsocketMessage(S, IdentifyFrame)

sendHeartbeat(S) ==
  sendWebsocketMessage([S EXCEPT !.lastHeartbeatAcked = FALSE],
                       HeartbeatFrame(S.sequence))

\* setInterval returns a handle no armed timer has.
NewHandle(used) == CHOOSE h \in 1..(Cardinality(used) + 1) : h \notin used

\* hello without the clearInterval of line 129.
hello_noClear(S, packet) ==
  LET S1 == IF packet.d.heartbeat_interval # 0
            THEN [S EXCEPT !.intervals = @ \cup {NewHandle(S.intervals)},
                           !.heartbeatInterval = NewHandle(S.intervals)]
            ELSE S
  IN  IF S1.sessionId # Null
      THEN sendWebsocketMessage(S1, ResumeFrame(S1.sessionId, S1.sequence))
      ELSE sendHeartbeat(identify(S1))

\* hello with the test of line 134 inverted.
hello_inverted(S, packet) ==
  LET cleared == IF S.heartbeatInterval # 0
                 THEN S.intervals \ {S.heartbeatInterval} ELSE S.intervals
      S1 == IF packet.d.heartbeat_interval # 0
            THEN [S EXCEPT !.intervals = cleared \cup {NewHandle(cleared)},
                           !.heartbeatInterval = NewHandle(cleared)]
            ELSE S
  IN  IF S1.sessionId = Null
      THEN sendWebsocketMessage(S1, ResumeFrame(S1.sessionId, S1.sequence))
      ELSE sendHeartbeat(identify(S1))

\* case HELLO of packetReceive.
hello(S, packet) ==
  LET cleared == IF S.heartbeatInterval # 0
                 THEN S.intervals \ {S.heartbeatInterval} ELSE S.intervals
      S1 == IF packet.d.heartbeat_interval # 0
            THEN [S EXCEPT !.intervals = cleared \cup {NewHandle(cleared)},
                           !.heartbeatInterval = NewHandle(cleared)]
            ELSE S
  IN  IF S1.sessionId # Null
      THEN sendWebsocketMessage(S1, ResumeFrame(S1.sessionId, S1.sequence))
      ELSE sendHeartbeat(identify(S1))

\* case INVALID_SESSION of packetReceive.
invalidSession(S, packet) ==
  LET S1 == [S EXCEPT !.sessionId = Null, !.sequence = 0]
  IN  IF packet.d.truthy THEN identify(S1) ELSE S1

\* case "READY" of the switch on packet.t.
ready(S, packet) ==
  sendHeartbeat([S EXCEPT !.sessionId = packet.d.session_id,
                          !.status = "READY",
                          !.lastHeartbeatAcked = TRUE])

\* packetReceive calling handlePacket for every frame that has a type.
packetReceive_dispatchByType(S, packet, blocked) ==
  LET S1 == IF packet.s # 0 THEN [S EXCEPT !.sequence = packet.s] ELSE S
      S2 == IF packet.t = "READY" THEN ready(S1, packet) ELSE S1
      S3 == IF packet.t # Null
            THEN [S2 EXCEPT !.handled = Append(@, handlePacket(packet, blocked))]
            ELSE S2
  IN  CASE packet.op = "HEARTBEAT" -> sendHeartbeat(S3)
        [] packet.op = "HEARTBEAT_ACK" -> [S3 EXCEPT !.lastHeartbeatAck = "true"]
        [] packet.op = "HELLO" -> hello(S3, packet)
        [] packet.op = "INVALID_SESSION" -> invalidSession(S3, packet)
        [] OTHER -> S3

packetReceive(S, packet, blocked) ==
  LET S1 == IF packet.s # 0 THEN [S EXCEPT !.sequence = packet.s] ELSE S
      S2 == IF packet.t = "READY" THEN ready(S1, packet) ELSE S1
  IN  CASE packet.op = "EVENT" ->
             [S2 EXCEPT !.handled = Append(@, handlePacket(packet, blocked))]
        [] packet.op = "HEARTBEAT" -> sendHeartbeat(S2)
        [] packet.op = "HEARTBEAT_ACK" -> [S2 EXCEPT !.lastHeartbeatAck = "true"]
        [] packet.op = "HELLO" -> hello(S2, packet)
        [] packet.op = "INVALID_SESSION" -> invalidSession(S2, packet)
        [] OTHER -> S2

websocketConnectionOpen(S) ==
  [emit([S EXCEPT !.status = "OPEN"], "connect", Null)
     EXCEPT !.lastHeartbeatAck = "true"]

websocketError(S) == emit(S, "shardError", "error")

\* connection.terminate(): the socket starts closing; its close event follows.
terminate(socks, c) ==
  IF socks[c] \in {"CONNECTING", "OPEN"} THEN [socks EXCEPT ![c] = "CLOSING"]
  ELSE socks

\* backoff with > for >= in the test of line 236.
backoff_offByOne(S) ==
  IF S.reconnectAttempts > 5 THEN emit(S, "disconnect", "ATTEMPTS_ULTRAPASSED")
  ELSE [S EXCEPT !.timeouts = Append(@, [delay |-> S.reconnectInterval,
                                         fired |-> FALSE]),
                 !.reconnectInterval = S.reconnectInterval + 3000,
                 !.reconnectAttempts = S.reconnectAttempts + 1]

\* The reconnect decision of disconnect (lines 235-242).
backoff(S) ==
  IF S.reconnectAttempts >= 5 THEN emit(S, "disconnect", "ATTEMPTS_ULTRAPASSED")
  ELSE [S EXCEPT !.timeouts = Append(@, [delay |-> S.reconnectInterval,
                                         fired |-> FALSE]),
                 !.reconnectInterval = S.reconnectInterval + 3000,
                 !.reconnectAttempts = S.reconnectAttempts + 1]

\* disconnect without the test of line 210.
disconnect_noGuard(S, reconnect, autoRec, terminateThrows) ==
  LET S1 == IF S.heartbeatInterval # 0
            THEN [S EXCEPT !.intervals = @ \ {S.heartbeatInterval},
                           !.heartbeatInterval = 0]
            ELSE S
  IN  IF terminateThrows \/ S.connection = 0 THEN emit(S1, "shardError", "error")
      ELSE
        LET S2 == emit([S1 EXCEPT !.sockets = terminate(@, S1.connection),
                                  !.connection = 0],
                       "disconnect", "ASKED")
            S3 == IF S2.sessionId # Null THEN [S2 EXCEPT !.sessionId = Null] ELSE S2
            S4 == IF S3.sequence # 0 THEN [S3 EXCEPT !.sequence = -1] ELSE S3
        IN  IF reconnect /\ autoRec THEN backoff(S4) ELSE S4

\* disconnect(reconnect); terminateThrows: whether connection.terminate() throws.
disconnect(S, reconnect, autoRec, terminateThrows) ==
  IF S.connection = 0 THEN S
  ELSE
    LET S1 == IF S.heartbeatInterval # 0
              THEN [S EXCEPT !.intervals = @ \ {S.heartbeatInterval},
                             !.heartbeatInterval = 0]
              ELSE S
    IN  IF terminateThrows THEN emit(S1, "shardError", "error")
        ELSE
          LET S2 == emit([S1 EXCEPT !.sockets = terminate(@, S1.connection),
                                    !.connection = 0],
                         "disconnect", "ASKED")
              S3 == IF S2.sessionId # Null THEN [S2 EXCEPT !.sessionId = Null] ELSE S2
              S4 == IF S3.sequence # 0 THEN [S3 EXCEPT !.sequence = -1] ELSE S3
          IN  IF reconnect /\ autoRec THEN backoff(S4) ELSE S4

websocketCloseConnection(S, autoRec, terminateThrows) ==
  disconnect(emit([S EXCEPT !.status = "CLOSED"], "connectionClosed", Null),
             TRUE, autoRec, terminateThrows)

\* ------------------------------------------------------- Shard actions
\* shard.connect(), called by the manager (connectShard) or the application.
Connect ==
  /\ UNCHANGED opened
  /\ Commit(connect(Shard), Handler("connect", NoPacket, FALSE))

\* The socket's "open" event.
WsOpen(i) ==
  /\ sockets[i] = "CONNECTING"
  /\ opened' = opened \cup {i}
  /\ Commit(websocketConnectionOpen([Shard EXCEPT !.sockets[i] = "OPEN"]),
            Handler("open", NoPacket, FALSE))

\* The socket's "message" event, with the decoded packet.
WsMessage(i, packet) ==
  /\ sockets[i] = "OPEN"
  /\ UNCHANGED opened
  /\ Commit(packetReceive(Shard, packet, blockedEvents),
            Handler("message", packet, FALSE))

\* The socket's "error" event.
WsError(i) ==
  /\ sockets[i] \in {"CONNECTING", "OPEN", "CLOSING"}
  /\ UNCHANGED opened
  /\ Commit(websocketError(Shard), Handler("error", NoPacket, FALSE))

\* The socket's "close" event.
WsClose(i, terminateThrows) ==
  /\ sockets[i] \in {"CONNECTING", "OPEN", "CLOSING"}
  /\ UNCHANGED opened
  /\ Commit(websocketCloseConnection([Shard EXCEPT !.sockets[i] = "CLOSED"],
                                     autoReconnect, terminateThrows),
            Thrown(Handler("close", NoPacket, TRUE),
                   terminateThrows /\ connection # 0))

\* A tick of an armed setInterval timer (line 131).
HeartbeatTick(h) ==
  /\ h \in intervals
  /\ UNCHANGED opened
  /\ Commit(sendHeartbeat(Shard), Handler("heartbeatTick", NoPacket, FALSE))

\* The setTimeout of disconnect (line 238) fires: () => this.connect().
ReconnectTimeout(k) ==
  /\ ~timeouts[k].fired
  /\ UNCHANGED opened
  /\ Commit(connect([Shard EXCEPT !.timeouts[k].fired = TRUE]),
            Handler("reconnectTimeout", NoPacket, FALSE))

\* shard.disconnect(reconnect), called by the application.
Disconnect(reconnect, terminateThrows) ==
  /\ UNCHANGED opened
  /\ Commit(disconnect(Shard, reconnect, autoReconnect, terminateThrows),
            Thrown(Handler("disconnect", NoPacket, reconnect),
                   terminateThrows /\ connection # 0))

\* The Shard after its constructor, with the backoff counters at `attempts`
\* reconnects (the constructor sets 0 and 3000).
ShardInitAt(attempts) ==
  /\ status = "IDLE"
  /\ connection = 0
  /\ sequence = -1
  /\ sessionId = Null
  /\ lastHeartbeatAcked = TRUE
  /\ lastHeartbeatAck = Null
  /\ heartbeatInterval = 0
  /\ reconnectInterval = 3000 + 3000 * attempts
  /\ reconnectAttempts = attempts
  /\ sockets = <<>>
  /\ opened = {}
  /\ intervals = {}
  /\ timeouts = <<>>
  /\ sent = <<>>
  /\ emitted = <<>>
  /\ handled = <<>>
  /\ last = Handler("constructor", NoPacket, FALSE)

\* No Collection in use.
CacheIdle ==
  /\ limit = 0
  /\ toAdd = [configured |-> FALSE, admits |-> {}]
  /\ store = <<>>
  /\ ret = Null
  /\ call = [op |-> "constructor", id |-> Null, item |-> Null]
  /\ added = [id \in {} |-> Null]
  /\ sweepQuota = 0
  /\ toRemove = {}
  /\ removedItems = 0
  /\ sweepTimers = 0

\* The GatewayManager after its constructor.
ManagerIdle ==
  /\ queue = <<>>
  /\ shards = <<>>
  /\ started = FALSE
  /\ now = 0
  /\ connectTimers = {}
  /\ attemptLog = <<>>
  /\ startResult = Null
  /\ unhandled = 0

ShardInit ==
  /\ ShardInitAt(0)
  /\ autoReconnect \in BOOLEAN
  /\ blockedEvents \in SUBSET EventTypes
  /\ CacheIdle
  /\ ManagerIdle

\* The handlers of the Shard, as the manager, the socket and the timers call
\* them.  The terminate() of a ws socket aborts the handshake or destroys the
\* socket and does not throw, so the close handler runs with terminateThrows
\* FALSE; the application calls nothing but connect().
ShardNext ==
  \/ Connect
  \/ \E i \in DOMAIN sockets : WsOpen(i)
  \/ \E i \in DOMAIN sockets : \E packet \in InboundFrames : WsMessage(i, packet)
  \/ \E i \in DOMAIN sockets : WsError(i)
  \/ \E i \in DOMAIN sockets : WsClose(i, FALSE)
  \/ \E h \in intervals : HeartbeatTick(h)
  \/ \E k \in DOMAIN timeouts : ReconnectTimeout(k)

ShardSpec == ShardInit /\ [][ShardNext]_vars

\* The handlers of the Shard run from every value of its backoff counters:
\* reconnectAttempts and reconnectInterval are plain writable fields.
BackoffInit ==
  /\ \E attempts \in 0..MaxAttempts : ShardInitAt(attempts)
  /\ autoReconnect \in BOOLEAN
  /\ blockedEvents \in SUBSET EventTypes
  /\ CacheIdle
  /\ ManagerIdle

BackoffSpec == BackoffInit /\ [][ShardNext]_vars

\* The handlers of the Shard, the message handler with every frame, well
\* formed or not.
FramesNext ==
  \/ Connect
  \/ \E i \in DOMAIN sockets : WsOpen(i)
  \/ \E i \in DOMAIN sockets : \E packet \in AnyFrames : WsMessage(i, packet)
  \/ \E i \in DOMAIN sockets : WsError(i)
  \/ \E i \in DOMAIN sockets : WsClose(i, FALSE)
  \/ \E h \in intervals : HeartbeatTick(h)
  \/ \E k \in DOMAIN timeouts : ReconnectTimeout(k)

FramesSpec == ShardInit /\ [][FramesNext]_vars

\* The handlers of the Shard and the disconnect() of its interface, called at
\* any time with either argument; terminate() does not throw.
LifecycleNext ==
  \/ ShardNext
  \/ \E reconnect \in BOOLEAN : Disconnect(reconnect, FALSE)

LifecycleSpec == ShardInit /\ [][LifecycleNext]_vars

\* The same, with a connection.terminate() that may throw: disconnect calls it
\* in a try block (lines 218-222).
FaultNext ==
  \/ LifecycleNext
  \/ \E i \in DOMAIN sockets : WsClose(i, TRUE)
  \/ \E reconnect \in BOOLEAN : Disconnect(reconnect, TRUE)

FaultSpec == ShardInit /\ [][FaultNext]_vars

\* ---------------------------------------------------------- Collection
\* A Javascript value passed to Map.prototype.delete that is not a string: an
\* object (an array), which is the same key as nothing but itself.
ArrayObject(elements) == [type |-> "object", value |-> elements]

\* Map.prototype.has, get, set, delete, keys, on the entries in insertion order.
MapHas(m, id) == \E n \in DOMAIN m : m[n].id = id

MapGet(m, id) ==
  IF MapHas(m, id) THEN m[CHOOSE n \in DOMAIN m : m[n].id = id].item ELSE Undefined

MapSet(m, id, item) ==
  IF MapHas(m, id)
  THEN [n \in DOMAIN m |-> IF m[n].id = id THEN [id |-> id, item |-> item] ELSE m[n]]
  ELSE Append(m, [id |-> id, item |-> item])

MapDelete(m, key) ==
  SelectSeq(m, LAMBDA e : ~(key.type = "string" /\ key.value = e.id))

MapKeys(m) == [n \in DOMAIN m |-> m[n].id]

\* Array.prototype.slice(-1): a new array of the last element, if any.
SliceLast(array) ==
  ArrayObject(IF array = <<>> THEN <<>> ELSE <<array[Len(array)]>>)

\* add with set called for a key the Map has.
add_overwrite(m, lim, id, item) ==
  IF lim = 0 THEN [store |-> m, ret |-> item]
  ELSE IF id = Undefined THEN [store |-> m, ret |-> "Error: Missing id"]
  ELSE
    LET m1 == IF lim # 0 /\ Len(m) > lim
              THEN MapDelete(m, SliceLast(MapKeys(m))) ELSE m
    IN  [store |-> MapSet(m1, id, item), ret |-> item]

\* add(id, item) on the entries m of a Collection of limit lim: the entries
\* it leaves and what it returns (or the error it throws).
add(m, lim, id, item) ==
  IF lim = 0 THEN [store |-> m, ret |-> item]
  ELSE IF id = Undefined THEN [store |-> m, ret |-> "Error: Missing id"]
  ELSE IF MapHas(m, id) THEN [store |-> m, ret |-> MapGet(m, id)]
  ELSE
    LET m1 == IF lim # 0 /\ Len(m) > lim
              THEN MapDelete(m, SliceLast(MapKeys(m))) ELSE m
    IN  [store |-> MapSet(m1, id, item), ret |-> item]

\* A call of add.
Add(id, item) ==
  /\ store' = add(store, limit, id, item).store
  /\ ret' = add(store, limit, id, item).ret
  /\ call' = [op |-> "add", id |-> id, item |-> item]
  /\ added' = IF id \in Keys /\ added[id] = Null
               THEN [added EXCEPT ![id] = item] ELSE added
  /\ UNCHANGED <<limit, toAdd, sweepQuota, toRemove, removedItems, sweepTimers,
                 shardVars, managerVars>>

\* new Collection(cache, limit), with or without a toAdd in cache.  The calls
\* made on it are those of add; the timer of #sweep is not among them.
CacheInit ==
  /\ limit \in 0..MaxLimit
  /\ toAdd \in    {[configured |-> FALSE, admits |-> Keys]}
              \cup {[configured |-> TRUE, admits |-> Keys \ {id}] : id \in Keys}
  /\ store = <<>>
  /\ ret = Null
  /\ call = [op |-> "constructor", id |-> Null, item |-> Null]
  /\ added = [id \in Keys |-> Null]
  /\ sweepQuota = 0
  /\ toRemove = {}
  /\ removedItems = 0
  /\ sweepTimers = 0
  /\ ShardInitAt(0)
  /\ autoReconnect = TRUE
  /\ blockedEvents = {}
  /\ ManagerIdle

CacheNext == \E id \in Keys \cup {Undefined} : \E item \in Items : Add(id, item)

CacheSpec == CacheInit /\ [][CacheNext]_vars

\* A string passed to Map.prototype.delete.
StringKey(id) == [type |-> "string", value |-> id]

\* #sweep without the test of line 520.
sweep_noBreak(m, quota, removable) ==
  [store |-> SelectSeq(m, LAMBDA e : e.item \notin removable),
   removedItems |-> Len(m) - Len(SelectSeq(m, LAMBDA e : e.item \notin removable))]

\* The loop of #sweep over the entries still to visit, in insertion order: m
\* is the Map as the deletions so far have left it.
RECURSIVE sweepLoop(_, _, _, _, _)
sweepLoop(entries, m, removed, quota, removable) ==
  IF entries = <<>> \/ removed >= quota
  THEN [store |-> m, removedItems |-> removed]
  ELSE IF Head(entries).item \in removable
       THEN sweepLoop(Tail(entries), MapDelete(m, StringKey(Head(entries).id)),
                      removed + 1, quota, removable)
       ELSE sweepLoop(Tail(entries), m, removed, quota, removable)

\* One pass of #sweep on the entries m: the entries it leaves and its count.
sweep(m, quota, removable) == sweepLoop(m, m, 0, quota, removable)

\* The first items of the keys the Map still holds.
Forget(history, m) ==
  [id \in DOMAIN history |-> IF MapHas(m, id) THEN history[id] ELSE Null]

\* The setTimeout of #sweep fires (line 525): one pass, and the next is armed.
Sweep ==
  /\ sweepTimers > 0
  /\ store' = sweep(store, sweepQuota, toRemove).store
  /\ removedItems' = sweep(store, sweepQuota, toRemove).removedItems
  /\ sweepTimers' = (sweepTimers - 1) + 1
  /\ ret' = Undefined
  /\ call' = [op |-> "sweep", id |-> Null, item |-> Null]
  /\ added' = Forget(added, store')
  /\ UNCHANGED <<limit, toAdd, sweepQuota, toRemove, shardVars, managerVars>>

\* remove(item) on the entries m: the entries it leaves and what it returns.
remove(m, id) ==
  IF ~MapHas(m, id) THEN [store |-> m, ret |-> Null]
  ELSE [store |-> MapDelete(m, StringKey(id)),
        ret |-> MapGet(MapDelete(m, StringKey(id)), id)]

\* A call of remove, with an item of the given id.
Remove(id) ==
  /\ store' = remove(store, id).store
  /\ ret' = remove(store, id).ret
  /\ call' = [op |-> "remove", id |-> id, item |-> Null]
  /\ added' = Forget(added, store')
  /\ UNCHANGED <<limit, toAdd, sweepQuota, toRemove, removedItems, sweepTimers,
                 shardVars, managerVars>>

\* new Collection({ sweep, toRemove }, limit): the constructor runs #sweep on
\* the empty Map, which arms the timer.  The limit is not 0, with which add
\* stores nothing; toRemove is any predicate on the item.
SweepInit ==
  /\ limit \in 1..MaxLimit
  /\ toAdd = [configured |-> FALSE, admits |-> Keys]
  /\ store = <<>>
  /\ ret = Null
  /\ call = [op |-> "constructor", id |-> Null, item |-> Null]
  /\ added = [id \in Keys |-> Null]
  /\ sweepQuota \in 0..MaxSweep
  /\ toRemove \in SUBSET Items
  /\ removedItems = 0
  /\ sweepTimers = 1
  /\ ShardInitAt(0)
  /\ autoReconnect = TRUE
  /\ blockedEvents = {}
  /\ ManagerIdle

\* The calls made on the Collection and the timer of #sweep.
SweepNext ==
  \/ \E id \in Keys : \E item \in Items : Add(id, item)
  \/ \E id \in Keys : Remove(id)
  \/ Sweep

SweepSpec == SweepInit /\ [][SweepNext]_vars

\* ------------------------------------------------------ GatewayManager
\* The manager's state, as a record.
Manager ==
  [queue |-> queue, shards |-> shards, connectTimers |-> connectTimers,
   attemptLog |-> attemptLog, startResult |-> startResult]

CommitManager(M) ==
  /\ queue' = M.queue
  /\ shards' = M.shards
  /\ connectTimers' = M.connectTimers
  /\ attemptLog' = M.attemptLog
  /\ startResult' = M.startResult

\* new Shard(this, id), as far as connect() reads and writes it.
NewShard == [status |-> "IDLE", connection |-> 0, sockets |-> <<>>]

\* What shard.connect() does when called by connectShard: it returns, or
\* new Websocket throws an error without or with a code.
ConnectOutcomes == {"ok", "errorNoCode", "errorCode"}

\* connectShard with setTimeout(..., 0).
connectShard_noDelay(M, outcome, t) ==
  LET shard == Head(M.queue)
      M1 == [M EXCEPT !.queue = Tail(@),
                      !.attemptLog = Append(@, [shard |-> shard, at |-> t,
                                                outcome |-> outcome])]
      M2 == CASE outcome = "ok" -> [M1 EXCEPT !.shards[shard] = connect(@)]
              [] outcome = "errorNoCode" -> [M1 EXCEPT !.queue = Append(@, shard)]
              [] outcome = "errorCode" -> M1
  IN  IF outcome = "errorCode" THEN M2
      ELSE IF M2.queue # <<>>
           THEN [M2 EXCEPT !.connectTimers = @ \cup {t}]
           ELSE M2

\* connectShard(), run at time t, with the outcome of its shard.connect().
connectShard(M, outcome, t) ==
  LET shard == Head(M.queue)
      M1 == [M EXCEPT !.queue = Tail(@),
                      !.attemptLog = Append(@, [shard |-> shard, at |-> t,
                                                outcome |-> outcome])]
      M2 == CASE outcome = "ok" -> [M1 EXCEPT !.shards[shard] = connect(@)]
              [] outcome = "errorNoCode" -> [M1 EXCEPT !.queue = Append(@, shard)]
              [] outcome = "errorCode" -> M1
  IN  IF outcome = "errorCode" THEN M2
      ELSE IF M2.queue # <<>>
           THEN [M2 EXCEPT !.connectTimers = @ \cup {t + 5000}]
           ELSE M2

\* Whether one more shard.connect() may fail, within the bound.
MayFail(outcome) == outcome = "ok" \/ Len(attemptLog) + 1 < MaxConnects

\* createShardConnection(), called once by the client, with n shard ids: the
\* queue is filled and the first connectShard() runs.
CreateShardConnection(n, outcome) ==
  /\ ~started
  /\ MayFail(outcome)
  /\ started' = TRUE
  /\ LET M0 == [Manager EXCEPT !.queue = [i \in 1..n |-> i],
                               !.shards = [i \in 1..n |-> NewShard]]
         M1 == connectShard(M0, outcome, now)
     IN  CommitManager([M1 EXCEPT !.startResult =
                          IF outcome = "errorCode" THEN "rejected" ELSE "resolved"])
  /\ UNCHANGED <<now, unhandled, shardVars, cacheVars>>

\* The setTimeout of connectShard (line 59) fires, at its deadline or later.
\* The callback drops the promise connectShard() returns: a rejection of it
\* reaches no caller.
ConnectShardTimeout(deadline, outcome) ==
  /\ deadline \in connectTimers
  /\ now >= deadline
  /\ MayFail(outcome)
  /\ CommitManager(connectShard([Manager EXCEPT !.connectTimers = @ \ {deadline}],
                                outcome, now))
  /\ unhandled' = IF outcome = "errorCode" THEN unhandled + 1 ELSE unhandled
  /\ UNCHANGED <<started, now, shardVars, cacheVars>>

AdvanceTime ==
  /\ now + TimeStep <= MaxTime
  /\ now' = now + TimeStep
  /\ UNCHANGED <<queue, shards, started, connectTimers, attemptLog, startResult,
                 unhandled, shardVars, cacheVars>>

\* A call of manager.handlePacket(packet, shard).
HandlePacket(packet) ==
  /\ handled' = <<handlePacket(packet, blockedEvents)>>
  /\ last' = Handler("handlePacket", packet, FALSE)
  /\ UNCHANGED <<status, connection, sequence, sessionId, lastHeartbeatAcked,
                 lastHeartbeatAck, heartbeatInterval, reconnectInterval,
                 reconnectAttempts, sockets, opened, intervals, timeouts, sent,
                 emitted, autoReconnect, blockedEvents, cacheVars, managerVars>>

ManagerInit ==
  /\ ManagerIdle
  /\ ShardInitAt(0)
  /\ autoReconnect = TRUE
  /\ blockedEvents \in SUBSET EventTypes
  /\ CacheIdle

\* The startup of the Shards.
StartupNext ==
  \/ \E n \in 1..MaxShards : \E outcome \in ConnectOutcomes :
       CreateShardConnection(n, outcome)
  \/ \E deadline \in connectTimers : \E outcome \in ConnectOutcomes :
       ConnectShardTimeout(deadline, outcome)
  \/ AdvanceTime

StartupSpec == ManagerInit /\ [][StartupNext]_vars

\* The calls of handlePacket, with every packet and an absent one.
DispatchNext == \E packet \in InboundFrames \cup {NoPacket} : HandlePacket(packet)

DispatchSpec == ManagerInit /\ [][DispatchNext]_vars

\* ---------------------------------------- claims on the GatewayManager
\* Every shard.connect() so far has succeeded.
AllSucceeded == \A n \in DOMAIN attemptLog : attemptLog[n].outcome = "ok"

C14_StartupErrors ==
  [][ Len(attemptLog') = Len(attemptLog) + 1 =>
        LET a == attemptLog'[Len(attemptLog')]
        IN  /\ a.outcome = "errorNoCode" =>
                 /\ queue' # <<>> /\ queue'[Len(queue')] = a.shard
                 /\ Cardinality({n \in DOMAIN queue' : queue'[n] = a.shard}) = 1
                 /\ connectTimers' = {a.at + 5000}
            /\ a.outcome = "errorCode" =>
                 /\ ~Contains(queue', a.shard)
                 /\ startResult' = "rejected"
            /\ Len(attemptLog) >= 1 =>
                 a.at >= attemptLog[Len(attemptLog)].at + 5000 ]_vars

\* C8: handlePacket returns false for an absent packet and invokes nothing;
\* for a packet it returns true and invokes the handler of the packet's type
\* if and only if the type is not blocked and has a handler, and nothing else.
C8_DispatchFiltering ==
  \A n \in DOMAIN handled :
    LET r == handled[n]
    IN  IF r.packet = NoPacket
        THEN ~r.returned /\ r.invoked = <<>>
        ELSE /\ r.returned
             /\ Len(r.invoked) <= 1
             /\ \A t \in EventTypes \cup {Null} :
                  Contains(r.invoked, t) <=>
                    (t = r.packet.t /\ t \notin blockedEvents /\ t \in PacketHandlers)

\* C8's cases: a blocked type that has a handler, an unblocked type that has
\* none, and an absent packet have each gone through handlePacket.
C8_WitnessBlocked ==
  /\ last.h = "handlePacket" /\ last.packet # NoPacket
  /\ last.packet.t \in blockedEvents \cap PacketHandlers
  /\ handled = <<[packet |-> last.packet, returned |-> TRUE, invoked |-> <<>>]>>

\* -------------------------------------------- claims on the Collection
\* The last call was add(id, item) with a defined id.
Adding == call.op = "add" /\ call.id \in Keys

\* C2: a Collection with a limit L >= 1 never holds more than L entries.
C2_SizeAtMostLimit == limit >= 1 => Len(store) <= limit

\* C3: add of a new key (one the admission predicate, if any, admits) to a
\* Collection that holds limit >= 1 entries evicts the oldest entry and no
\* other, and stores the new entry last.
C3_EvictsOldest ==
  [][ ( /\ Adding'
        /\ ~MapHas(store, call'.id)
        /\ call'.id \in toAdd.admits
        /\ limit >= 1
        /\ Len(store) = limit )
      => store' = Append(Tail(store), [id |-> call'.id, item |-> call'.item]) ]_vars

\* C9 as claimed: for every Collection, the first add(k, v1) returns v1, and
\* an add(k, v2) after it returns v1 and leaves the entries as they were, k
\* mapped to v1.
C9_AddIdempotentAnyLimit ==
  [][ Adding' =>
        IF added[call'.id] = Null
        THEN ret' = call'.item
        ELSE /\ ret' = added[call'.id]
             /\ MapGet(store', call'.id) = added[call'.id]
             /\ Len(store') = Len(store) ]_vars

\* C9: for a Collection whose limit is not 0, the first add(k, v1) returns
\* v1, and an add(k, v2) after it returns v1 and leaves the entries as they
\* were, k mapped to v1.
C9_AddIdempotent ==
  [][ (Adding' /\ limit # 0) =>
        IF added[call'.id] = Null
        THEN ret' = call'.item /\ MapGet(store', call'.id) = call'.item
        ELSE /\ ret' = added[call'.id]
             /\ MapGet(store', call'.id) = added[call'.id]
             /\ store' = store ]_vars

\* C9's case: a second add of a key, with another item, has returned the first.
C9_Witness ==
  /\ Adding /\ limit # 0
  /\ added[call.id] \in Items \ {call.item}
  /\ ret = added[call.id]
  /\ MapGet(store, call.id) = added[call.id]
  /\ Len(store) >= 2

\* The entries of m that m2 no longer holds.
Deleted(m, m2) == SelectSeq(m, LAMBDA e : ~MapHas(m2, e.id))

C13_RemoveReturnsRemoved ==
  [][ call'.op = "remove" =>
        IF MapHas(store, call'.id)
        THEN /\ store' = SelectSeq(store, LAMBDA e : e.id # call'.id)
             /\ ret' = MapGet(store, call'.id)
        ELSE store' = store /\ ret' = Null ]_vars

\* C10: add(id, item) with an admission predicate that rejects id returns item
\* and leaves the entries as they were.
C10_VetoedAddIsNoOp ==
  [][ (Adding' /\ toAdd.configured /\ call'.id \notin toAdd.admits)
      => (ret' = call'.item /\ store' = store) ]_vars

\* ------------------------------------------------- claims on the Shard
\* The delays of the reconnects scheduled so far, in order.
Delays == [k \in DOMAIN timeouts |-> timeouts[k].delay]

\* Nothing is left to happen to the Shard: no socket is alive and no reconnect
\* is pending.
AtRest ==
  /\ \A i \in DOMAIN sockets : sockets[i] = "CLOSED"
  /\ \A k \in DOMAIN timeouts : timeouts[k].fired

\* C1: once the reconnect scheduled by the close of a socket that had opened
\* fires, the Connection has left CLOSED, holds a new socket and is connecting.
C1_ReconnectReentersConnect ==
  [][ ( /\ last'.h = "reconnectTimeout"
        /\ timeouts' # timeouts
        /\ status = "CLOSED"
        /\ opened # {}
        /\ autoReconnect )
      => ( /\ status' = "CONNECTED"
           /\ Len(sockets') = Len(sockets) + 1
           /\ connection' = Len(sockets')
           /\ sockets'[connection'] = "CONNECTING" ) ]_vars

\* C12: disconnect(reconnect) on a Connection that holds no socket emits
\* nothing, schedules no reconnect, and leaves every field and timer of the
\* Connection as it was.
C12_IdleDisconnectNoOp ==
  [][ (last'.h = "disconnect" /\ connection = 0)
      => ( /\ emitted' = <<>>
           /\ sent' = <<>>
           /\ timeouts' = timeouts
           /\ intervals' = intervals
           /\ sockets' = sockets
           /\ connection' = 0
           /\ status' = status
           /\ sessionId' = sessionId
           /\ sequence' = sequence
           /\ heartbeatInterval' = heartbeatInterval
           /\ reconnectInterval' = reconnectInterval
           /\ reconnectAttempts' = reconnectAttempts ) ]_vars

\* C12's case: disconnect(true) has been called, with auto-reconnect, on a
\* Connection that had released its socket, and did nothing.
C12_Witness ==
  /\ last.h = "disconnect" /\ last.reconnect /\ autoReconnect
  /\ sockets # <<>>
  /\ connection = 0
  /\ emitted = <<>>

\* C15: a disconnect that completes on a Connection that holds a socket, called
\* by the application or by the close handler, leaves sessionId null and
\* sequence -1.
C15_DisconnectClearsSession ==
  [][ (last'.h \in {"disconnect", "close"} /\ connection # 0)
      => (sessionId' = Null /\ sequence' = -1) ]_vars

\* C16: when the connection.terminate() of a disconnect throws, the error is
\* emitted as a shardError and the disconnect still releases the socket, clears
\* sessionId and sequence and, with reconnect and auto-reconnect, schedules a
\* reconnect or emits the terminal notification.
C16_TerminateFailureStillCleansUp ==
  [][ last'.threw
      => ( /\ Contains(emitted', Event("shardError", "error"))
           /\ connection' = 0
           /\ heartbeatInterval' = 0
           /\ sessionId' = Null
           /\ sequence' = -1
           /\ (last'.reconnect /\ autoReconnect)
                => \/ Len(timeouts') = Len(timeouts) + 1
                   \/ Contains(emitted', Event("disconnect", "ATTEMPTS_ULTRAPASSED")) ) ]_vars

\* C17: at most one heartbeat timer is armed, the one heartbeatInterval holds,
\* and only while the Connection holds an open socket; a disconnect on a
\* Connection that holds a socket leaves none armed, and a tick of the timer
\* finds the Connection holding an open socket.
C17_OneHeartbeatTimer ==
  /\ [] ( /\ Cardinality(intervals) <= 1
          /\ intervals = IF heartbeatInterval = 0 THEN {} ELSE {heartbeatInterval}
          /\ intervals # {} => (connection # 0 /\ sockets[connection] = "OPEN") )
  /\ [][ (last'.h \in {"disconnect", "close"} /\ connection # 0)
         => intervals' = {} ]_vars
  /\ [][ last'.h = "heartbeatTick"
         => (connection # 0 /\ sockets[connection] = "OPEN") ]_vars

\* C17's case: the timer a HELLO frame armed has ticked and sent a heartbeat,
\* and it is the one timer armed.
C17_Witness ==
  /\ last.h = "heartbeatTick"
  /\ intervals = {heartbeatInterval}
  /\ connection # 0
  /\ sent = <<HeartbeatFrame(sequence)>>

\* C18: lastHeartbeatAcked is false after every handler that sent a HEARTBEAT
\* frame, and true after every HEARTBEAT_ACK frame received and after the open
\* of the socket.
C18_AckFlag ==
  [][ /\ (\E n \in DOMAIN sent' : sent'[n].op = "HEARTBEAT") => ~lastHeartbeatAcked'
      /\ (last'.h = "message" /\ last'.packet.op = "HEARTBEAT_ACK")
           => lastHeartbeatAcked'
      /\ last'.h = "open" => lastHeartbeatAcked' ]_vars

\* C19: an INVALID_SESSION frame leaves sessionId null and sequence 0, and the
\* Connection sends IDENTIFY, alone, when the payload d is false and nothing
\* when it is true.
C19_InvalidSession ==
  [][ (last'.h = "message" /\ last'.packet.op = "INVALID_SESSION")
      => ( /\ sessionId' = Null
           /\ sequence' = 0
           /\ sent' = IF last'.packet.d.truthy THEN <<>> ELSE <<IdentifyFrame>> ) ]_vars

\* C20: for a frame of opcode EVENT (DISPATCH) the Connection calls
\* manager.handlePacket once, with that frame; for a frame of opcode HEARTBEAT,
\* HEARTBEAT_ACK, HELLO or INVALID_SESSION it does not call it, whatever the
\* type of the frame.
C20_DispatchOnlyForEvents ==
  [][ last'.h = "message" =>
        IF last'.packet.op = "EVENT"
        THEN Len(handled') = 1 /\ handled'[1].packet = last'.packet
        ELSE handled' = <<>> ]_vars

\* C20's case: a control frame whose type has a handler and is not blocked has
\* been received, and handlePacket was not called.
C20_Witness ==
  /\ last.h = "message"
  /\ last.packet.op \in InboundOps \ {"EVENT"}
  /\ last.packet.t \in PacketHandlers \ blockedEvents
  /\ handled = <<>>

C4_HelloResumeOrIdentify ==
  [][ (last'.h = "message" /\ last'.packet.op = "HELLO")
      => IF sessionId # Null
         THEN sent' = <<ResumeFrame(sessionId, sequence')>>
         ELSE sent' = <<IdentifyFrame, HeartbeatFrame(sequence')>> ]_vars

\* C4's case: a HELLO frame has been answered with a RESUME.
C4_Witness ==
  /\ last.h = "message" /\ last.packet.op = "HELLO"
  /\ sessionId \in SessionIds
  /\ sequence > 0
  /\ sent = <<ResumeFrame(sessionId, sequence)>>

\* C5: from a fresh Connection with auto-reconnect, while no reconnect has
\* succeeded, the reconnect delays scheduled are 3000, 6000, 9000 in that
\* order with reconnectAttempts = 3 after the third, and the Connection does
\* not come to rest before the third is scheduled.
C5_BackoffGrowth ==
  (autoReconnect /\ opened \subseteq {1}) =>
    /\ Len(timeouts) >= 3 => SubSeq(Delays, 1, 3) = <<3000, 6000, 9000>>
    /\ Len(timeouts) = 3 => reconnectAttempts = 3
    /\ Len(timeouts) \in 1..2 => ~AtRest

\* The Connection has given up reconnecting.
Exhausted ==
  /\ autoReconnect
  /\ reconnectAttempts >= 5
  /\ status = "CLOSED"
  /\ connection = 0
  /\ \A k \in DOMAIN timeouts : timeouts[k].fired

====
